---- MODULE Spec2Model ----
(***************************************************************************)
(* A model of publish/build-book.py: the exclusion-rule loader, the        *)
(* per-file selection loop, the pipeline that follows it, the              *)
(* transformation loop and the table-of-contents directive expander.       *)
(*                                                                         *)
(* Texts (patterns, paths, file contents, the collated master) are         *)
(* sequences of tokens.  A token is one character ("a", "(", "%", "\t",    *)
(* "\n") or a word the code only ever handles as a whole ("exclude",       *)
(* ".md", a directive keyword).  Regular expressions the user supplies are *)
(* literal texts with an optional leading inline-flag group "(?...)".      *)
(***************************************************************************)
EXTENDS Integers, Sequences, FiniteSets, TLC

VARIABLES
    pc,                  \* position of the script
    lines,               \* the rows of the exclusions file
    li,                  \* index of the row being read
    json_contents,       \* the metadata record
    exclusions_map,      \* the active rules, in load order
    exclusion,           \* the rule being built from the current row
    ki,                  \* index into [search, path, comment] while rewriting
    this_value,          \* the field text being rewritten
    valid_rule,
    rule_rewritten,
    files,               \* the candidate files, sorted
    fi,                  \* index of the file being considered
    ri,                  \* index of the rule being evaluated for that file
    excluded,
    evaluated,           \* indices of the rules reached for the current file
    verdicts,            \* per file: the outcome of its loop (history)
    master_documents,
    included_file_paths,
    files_with_tks,
    num_exclusions,
    check_tks,
    stop_on_tks,
    master_contents,
    transformations,
    ti,                  \* index of the next transformation
    original,            \* the text process_toc was called on
    toc_pos,             \* re.sub's position in that text
    toc_out,             \* what re.sub has put out so far
    toc_calls,           \* the calls of toc_replace, in order (history)
    text_history,        \* the text before each transformation (history)
    stages,              \* the stages entered so far, in order (history)
    exit_code

vars == << pc, lines, li, json_contents, exclusions_map, exclusion, ki,
           this_value, valid_rule, rule_rewritten, files, fi, ri, excluded,
           evaluated, verdicts, master_documents, included_file_paths,
           files_with_tks, num_exclusions, check_tks, stop_on_tks,
           master_contents, transformations, ti, original, toc_pos, toc_out,
           toc_calls, text_history, stages, exit_code >>

(***************************************************************************)
(* Tokens and small text helpers.                                          *)
(***************************************************************************)
TAB == "\t"
NL == "\n"
Absent == <<"<absent>">>   \* a dict key that is not present / Python's None

Letters == {"a", "A", "b", "d", "i", "s", "M", "N", "T", "K", "t", "k"}

Lower(c) ==
    CASE c = "A" -> "a"
      [] c = "T" -> "t"
      [] c = "K" -> "k"
      [] c = "M" -> "m"
      [] c = "N" -> "n"
      [] c = "{TOC" -> "{toc"
      [] c = "ALL" -> "all"
      [] OTHER -> c

LowerText(t) == [n \in 1..Len(t) |-> Lower(t[n])]

Max(S) == CHOOSE x \in S : \A y \in S : y <= x
Min(S) == CHOOSE x \in S : \A y \in S : x <= y

\* Positions n at which the literal text pat occurs in txt.
Occurrences(pat, txt) ==
    {n \in 1..(Len(txt) - Len(pat) + 1) : SubSeq(txt, n, n + Len(pat) - 1) = pat}

RECURSIVE Join(_, _)
Join(docs, sep) ==
    IF Len(docs) = 0 THEN <<>>
    ELSE IF Len(docs) = 1 THEN docs[1]
    ELSE docs[1] \o sep \o Join(Tail(docs), sep)

(***************************************************************************)
(* pattern_has_flag / pattern_strip_flag (lines 29, 48-56).                *)
(*   ^\(\?[a-zA-Z]*(FLAG)[^\)]*\)                                          *)
(* pattern_has_flag is the position of group 1 (0: no match).  The letter  *)
(* run before the flag is greedy, so group 1 is the last qualifying flag   *)
(* letter.                                                                 *)
(***************************************************************************)
FlagPositions(patt, flag) ==
    {j \in 3..Len(patt) :
        /\ patt[1] = "(" /\ patt[2] = "?"
        /\ patt[j] = flag
        /\ \A n \in 3..(j - 1) : patt[n] \in Letters
        /\ \E c \in (j + 1)..Len(patt) : patt[c] = ")"}

pattern_has_flag(patt, flag) ==
    IF FlagPositions(patt, flag) = {} THEN 0 ELSE Max(FlagPositions(patt, flag))

pattern_strip_flag(patt, flag) ==
    LET j == pattern_has_flag(patt, flag)
    IN  IF j > 0 THEN SubSeq(patt, 1, j - 1) \o SubSeq(patt, j + 1, Len(patt))
        ELSE patt

(***************************************************************************)
(* re.search for the patterns of this model: literal text after an         *)
(* optional leading inline-flag group.  "(?" must be followed by one or    *)
(* more of Python's flag letters and ")"; an empty group "(?)" or a letter *)
(* that is no flag (M, N) is a re.error.  Flag i folds case.               *)
(***************************************************************************)
RegexFlagLetters == {"i", "s"}

HasFlagGroup(patt) == Len(patt) >= 2 /\ patt[1] = "(" /\ patt[2] = "?"

GroupClose(patt) ==
    IF \E c \in 3..Len(patt) : patt[c] = ")"
    THEN Min({c \in 3..Len(patt) : patt[c] = ")"})
    ELSE 0

RegexValid(patt) ==
    IF HasFlagGroup(patt)
    THEN /\ GroupClose(patt) > 3
         /\ \A n \in 3..(GroupClose(patt) - 1) : patt[n] \in RegexFlagLetters
    ELSE TRUE

RegexBody(patt) ==
    IF HasFlagGroup(patt) THEN SubSeq(patt, GroupClose(patt) + 1, Len(patt))
    ELSE patt

RegexIgnoreCase(patt) ==
    HasFlagGroup(patt) /\ \E n \in 3..(GroupClose(patt) - 1) : patt[n] = "i"

\* "error" | "match" | "nomatch"
re_search(patt, txt) ==
    IF ~RegexValid(patt) THEN "error"
    ELSE IF RegexIgnoreCase(patt)
         THEN IF Occurrences(LowerText(RegexBody(patt)), LowerText(txt)) # {}
              THEN "match" ELSE "nomatch"
         ELSE IF Occurrences(RegexBody(patt), txt) # {}
              THEN "match" ELSE "nomatch"

(***************************************************************************)
(* pattern_metadata_key_regex  \%([^\%]+?)\%  (line 30): the leftmost "%"  *)
(* that is followed by at least one non-"%" token and then a "%".          *)
(***************************************************************************)
TokenStarts(v) ==
    {n \in 1..Len(v) :
        /\ v[n] = "%"
        /\ n + 1 <= Len(v) /\ v[n + 1] # "%"
        /\ \E e \in (n + 2)..Len(v) : v[e] = "%"}

HasToken(v) == TokenStarts(v) # {}
TokenStart(v) == Min(TokenStarts(v))
TokenEnd(v) == Min({e \in (TokenStart(v) + 2)..Len(v) : v[e] = "%"})
TokenKey(v) == SubSeq(v, TokenStart(v) + 1, TokenEnd(v) - 1)

(***************************************************************************)
(* Reading one row of the exclusions file (lines 418-423).                 *)
(***************************************************************************)
RECURSIVE CollapseTabs(_)
CollapseTabs(line) ==
    IF Len(line) < 2 THEN line
    ELSE IF line[1] = TAB /\ line[2] = TAB THEN CollapseTabs(Tail(line))
    ELSE <<line[1]>> \o CollapseTabs(Tail(line))

RECURSIVE StripNL(_)
StripNL(line) ==
    IF Len(line) > 0 /\ line[1] = NL THEN StripNL(Tail(line))
    ELSE IF Len(line) > 0 /\ line[Len(line)] = NL
         THEN StripNL(SubSeq(line, 1, Len(line) - 1))
    ELSE line

RECURSIVE Split(_, _)
Split(t, sep) ==
    IF \A n \in 1..Len(t) : t[n] # sep THEN <<t>>
    ELSE LET p == Min({n \in 1..Len(t) : t[n] = sep})
         IN  <<SubSeq(t, 1, p - 1)>> \o Split(SubSeq(t, p + 1, Len(t)), sep)

Whitespace == {" ", TAB, NL}

RECURSIVE RStrip(_)
RStrip(t) ==
    IF Len(t) > 0 /\ t[Len(t)] \in Whitespace THEN RStrip(SubSeq(t, 1, Len(t) - 1))
    ELSE t

Components(line) == Split(StripNL(CollapseTabs(line)), TAB)

mode_exclude == <<"exclude">>
mode_e == <<"e">>
mode_include == <<"include">>
mode_i == <<"i">>
valid_exclusion_modes == {mode_exclude, mode_e, mode_include, mode_i}
scope_filename == <<"filename">>
scope_f == <<"f">>
scope_filepath == <<"filepath">>
scope_p == <<"p">>
scope_fullpath == <<"fullpath">>
scope_u == <<"u">>
scope_contents == <<"contents">>
scope_c == <<"c">>
valid_exclusion_scopes ==
    {scope_filename, scope_f, scope_filepath, scope_p, scope_fullpath, scope_u,
     scope_contents, scope_c}
path_any == <<"*">>
pattern_metadata_flag == "M"
pattern_negate_flag == "N"
search_key == "search"
path_key == "path"
comment_key == "comment"
RewriteKeys == <<search_key, path_key, comment_key>>

NormaliseMode(m) ==
    IF m = mode_e THEN mode_exclude ELSE IF m = mode_i THEN mode_include ELSE m

NormaliseScope(s) ==
    CASE s = scope_f -> scope_filename
      [] s = scope_p -> scope_filepath
      [] s = scope_u -> scope_fullpath
      [] s = scope_c -> scope_contents
      [] OTHER -> s

\* The dict built from a row of more than three components (lines 421-423);
\* comment is Absent when the row has no fifth component, negated is the
\* list under the "negated" key (empty: the key is not there).
RowExclusion(components) ==
    [mode |-> components[1], scope |-> components[2], path |-> components[3],
     search |-> components[4],
     comment |-> IF Len(components) > 4
                 THEN RStrip(Join(SubSeq(components, 5, Len(components)), <<TAB>>))
                 ELSE Absent,
     negated |-> <<>>]

\* A reader that would take any row of four fields or more, whatever its mode
\* and scope.
RowOfFourFields(line) == Len(Components(line)) > 3

RowAccepted(line) ==
    /\ Len(Components(line)) > 3
    /\ Components(line)[1] \in valid_exclusion_modes
    /\ Components(line)[2] \in valid_exclusion_scopes

NormalisedExclusion(line) ==
    LET e == RowExclusion(Components(line))
    IN  [e EXCEPT !.mode = NormaliseMode(e.mode), !.scope = NormaliseScope(e.scope)]

NoExclusion ==
    [mode |-> <<>>, scope |-> <<>>, path |-> <<>>, search |-> <<>>,
     comment |-> Absent, negated |-> <<>>]

Field(e, key) ==
    CASE key = search_key -> e.search
      [] key = path_key -> e.path
      [] OTHER -> e.comment

SetField(e, key, v) ==
    CASE key = search_key -> [e EXCEPT !.search = v]
      [] key = path_key -> [e EXCEPT !.path = v]
      [] OTHER -> [e EXCEPT !.comment = v]

\* Lines 485-496: the negation flags of search, then path.
NegateField(e, key) ==
    IF pattern_has_flag(Field(e, key), pattern_negate_flag) > 0
    THEN [SetField(e, key, pattern_strip_flag(Field(e, key), pattern_negate_flag))
             EXCEPT !.negated = Append(e.negated, key)]
    ELSE e

ConsiderNegation(e) == NegateField(NegateField(e, search_key), path_key)

(***************************************************************************)
(* generate_toc (lines 80-208).  The result is a record: toc is the text   *)
(* returned, entries the (level, indent, marker) of each entry emitted,    *)
(* warnings the level-jump warnings, error TRUE when the call raises.      *)
(***************************************************************************)
Digits == {"0", "1", "2", "3", "4", "5", "6", "7", "8", "9"}

DigitVal(d) ==
    CASE d = "0" -> 0 [] d = "1" -> 1 [] d = "2" -> 2 [] d = "3" -> 3
      [] d = "4" -> 4 [] d = "5" -> 5 [] d = "6" -> 6 [] d = "7" -> 7
      [] d = "8" -> 8 [] OTHER -> 9

DigitTok(n) ==
    CASE n = 0 -> "0" [] n = 1 -> "1" [] n = 2 -> "2" [] n = 3 -> "3"
      [] n = 4 -> "4" [] n = 5 -> "5" [] n = 6 -> "6" [] n = 7 -> "7"
      [] n = 8 -> "8" [] OTHER -> "9"

RECURSIVE NumText(_)
NumText(n) == IF n < 10 THEN <<DigitTok(n)>> ELSE NumText(n \div 10) \o <<DigitTok(n % 10)>>

RECURSIVE Tabs(_)
Tabs(n) == IF n <= 0 THEN <<>> ELSE <<TAB>> \o Tabs(n - 1)

LineStart(text, p) == p = 1 \/ (p > 1 /\ p <= Len(text) + 1 /\ text[p - 1] = NL)

\* End of the run of tokens satisfying Ok that starts at p (p - 1: empty run).
RECURSIVE RunEnd(_, _, _)
RunEnd(text, p, S) ==
    IF p <= Len(text) /\ text[p] \in S THEN RunEnd(text, p + 1, S) ELSE p - 1

RECURSIVE LineEnd(_, _)
LineEnd(text, p) ==
    IF p <= Len(text) /\ text[p] # NL THEN LineEnd(text, p + 1) ELSE p - 1

\* ^(#{start,depth})\s+(.+) tried at p: the position where the title starts,
\* 0 when there is no match.  \s+ may run over line ends; when it reaches the
\* end of the text it gives tokens back until (.+) finds one that is no NL.
HeadingTitleStart(text, p, start, depth) ==
    LET h == RunEnd(text, p, {"#"}) - p + 1
        q == p + h
        r == RunEnd(text, q, Whitespace) + 1
        S == {n \in (q + 1)..r : n <= Len(text) /\ text[n] # NL}
    IN  IF LineStart(text, p) /\ h >= start /\ h <= depth /\ r > q /\ S # {}
        THEN Max(S) ELSE 0

RECURSIVE FindHeadings(_, _, _, _)
FindHeadings(text, p, start, depth) ==
    IF p > Len(text) THEN <<>>
    ELSE LET t == HeadingTitleStart(text, p, start, depth)
         IN  IF t = 0 THEN FindHeadings(text, p + 1, start, depth)
             ELSE <<[hashes |-> RunEnd(text, p, {"#"}) - p + 1,
                     title |-> SubSeq(text, t, LineEnd(text, t))]>>
                  \o FindHeadings(text, LineEnd(text, t) + 1, start, depth)

\* (?i)\.(no-?toc|unlisted)\b in the title: attribute strings are tokens.
NoTocMarks == {"{.notoc}", "{.no-toc}", "{.unlisted}"}
AttributeToks == NoTocMarks \cup {"{.x}"}

HasNoTocMark(title) == \E n \in 1..Len(title) : title[n] \in NoTocMarks

\* Lines 117-122: markup characters go, a trailing attribute string goes.
RECURSIVE DropToks(_, _)
DropToks(t, S) ==
    IF Len(t) = 0 THEN <<>>
    ELSE IF t[1] \in S THEN DropToks(Tail(t), S)
    ELSE <<t[1]>> \o DropToks(Tail(t), S)

RECURSIVE Strip(_)
Strip(t) ==
    IF Len(t) > 0 /\ t[1] \in Whitespace THEN Strip(Tail(t)) ELSE RStrip(t)

CleanTitle(title) ==
    LET c == Strip(DropToks(title, {"_", "*", "#"}))
    IN  IF Len(c) > 0 /\ c[Len(c)] \in AttributeToks
        THEN Strip(SubSeq(c, 1, Len(c) - 1)) ELSE c

\* string_to_slug (lines 64-78) on cleaned titles: runs of tokens that are
\* no word characters become one hyphen, the ends are trimmed, case is folded.
WordToks == Letters \cup Digits

RECURSIVE Hyphenate(_, _)
Hyphenate(t, pending) ==
    IF Len(t) = 0 THEN <<>>
    ELSE IF t[1] \in WordToks
         THEN (IF pending THEN <<"-">> ELSE <<>>) \o <<Lower(t[1])>>
              \o Hyphenate(Tail(t), FALSE)
         ELSE Hyphenate(Tail(t), TRUE)

RECURSIVE DropLeadingNonWord(_)
DropLeadingNonWord(t) ==
    IF Len(t) > 0 /\ t[1] \notin WordToks THEN DropLeadingNonWord(Tail(t)) ELSE t

string_to_slug(text) == Hyphenate(DropLeadingNonWord(text), FALSE)

EntryLink(title, plain, as_html) ==
    LET c == CleanTitle(title)
        slug == string_to_slug(c)
    IN  IF as_html
        THEN IF plain
             THEN <<"<a href=\"#">> \o slug \o <<"\">">> \o c \o <<"</a>">>
             ELSE <<"<a href=\"#">> \o slug \o <<"\" class=\"section-title\">">>
                  \o c \o <<"</a>", "<a href=\"#">> \o slug
                  \o <<"\" class=\"page-number\"></a>">>
        ELSE IF plain
             THEN <<"[">> \o c \o <<"](#">> \o slug \o <<")">>
             ELSE <<"[">> \o c \o <<"](#">> \o slug \o <<")", "{.section-title}",
                    "[](#">> \o slug \o <<")", "{.page-number}">>

\* toc_lines[-1] += s
AddToLast(ls, s) == [ls EXCEPT ![Len(ls)] = ls[Len(ls)] \o s]

TagStart(ordered) == IF ordered THEN "<ol>" ELSE "<ul>"
TagEnd(ordered) == IF ordered THEN "</ol>" ELSE "</ul>"

\* Lines 140-147: for x in range(x, level), the filler for a skipped level.
RECURSIVE FillIn(_, _, _, _, _, _)
FillIn(ls, x, level, first, as_html, ordered) ==
    IF x >= level THEN ls
    ELSE LET ind == Tabs(IF first THEN x ELSE x - 1)
             ls1 == IF as_html
                    THEN Append(IF first THEN Append(ls, <<>>) ELSE ls,
                                ind \o <<TAB, TagStart(ordered), NL>> \o ind
                                    \o <<TAB, TAB, "<li>">>)
                    ELSE Append(ls, ind \o <<"- &nbsp;">>)
         IN  FillIn(ls1, x + 1, level, first, as_html, ordered)

\* Lines 157-160: for x in range(x, prev_level), closing on a decrease.
RECURSIVE CloseDown(_, _, _, _)
CloseDown(ls, x, prev_level, ordered) ==
    IF x >= prev_level THEN ls
    ELSE CloseDown(Append(AddToLast(ls, <<"</li>">>),
                          Tabs(x) \o <<TAB, TagEnd(ordered)>>),
                   x + 1, prev_level, ordered)

\* Lines 165-174.
RECURSIVE PushOnes(_, _)
PushOnes(stack, n) == IF n <= 0 THEN stack ELSE PushOnes(Append(stack, 1), n - 1)

NumbersAfter(stack, level, prev_level) ==
    IF level = prev_level THEN [stack EXCEPT ![Len(stack)] = stack[Len(stack)] + 1]
    ELSE IF level > prev_level THEN PushOnes(stack, level - prev_level)
    ELSE SubSeq(stack, 1, Len(stack) - (prev_level - level))

TocInit ==
    [toc_lines |-> <<>>, prev_level |-> 0, numbers_stack |-> <<0>>,
     list_marker |-> <<"-">>, i |-> 0, indent |-> Absent, entries |-> <<>>,
     warnings |-> <<>>]

\* One pass of the loop body (lines 107-190) for heading h.
TocEntry(st, h, start, ordered, plain, as_html) ==
    LET first == (st.i = 0)
        level == h.hashes - start
        prev == st.prev_level
        jump == level > prev /\ (level - prev > 1 \/ first)
        ls1 == IF jump
               THEN FillIn(st.toc_lines, IF first THEN prev ELSE prev + 1, level,
                           first, as_html, ordered)
               ELSE IF as_html /\ level > prev
               THEN Append(st.toc_lines,
                           Tabs(level) \o <<TagStart(ordered), NL>> \o Tabs(level)
                               \o <<TAB, "<li>">>)
               ELSE IF as_html /\ level = prev
               THEN IF first THEN st.toc_lines
                    ELSE Append(AddToLast(st.toc_lines, <<"</li>">>),
                                Tabs(level) \o <<TAB, "<li>">>)
               ELSE IF as_html
               THEN LET c == CloseDown(st.toc_lines, level, prev, ordered)
                        ind == Tabs(prev - 1)
                    IN  Append(Append(c, ind \o <<TAB, "</li>">>),
                               ind \o <<TAB, "<li>">>)
               ELSE st.toc_lines
        indent == IF jump
                  THEN (IF first THEN Tabs(level - 1) \o <<TAB>> ELSE Tabs(level - 2))
                  ELSE IF as_html /\ level < prev THEN Tabs(prev - 1)
                  ELSE Tabs(level)
        stack == IF ordered THEN NumbersAfter(st.numbers_stack, level, prev)
                 ELSE st.numbers_stack
        marker == IF ordered THEN NumText(stack[Len(stack)]) \o <<".">>
                  ELSE st.list_marker
        link == EntryLink(h.title, plain, as_html)
        ls2 == IF as_html
               THEN AddToLast(IF first /\ Len(ls1) = 0 THEN Append(ls1, <<>>) ELSE ls1,
                              link)
               ELSE Append(ls1, indent \o marker \o <<" ">> \o link)
    IN  IF HasNoTocMark(h.title) THEN st
        ELSE [toc_lines |-> ls2, prev_level |-> level, numbers_stack |-> stack,
              list_marker |-> marker, i |-> st.i + 1, indent |-> indent,
              entries |-> Append(st.entries,
                                 [level |-> level, indent |-> Len(indent),
                                  marker |-> marker, title |-> CleanTitle(h.title)]),
              warnings |-> IF jump
                           THEN Append(st.warnings,
                                       [from |-> prev + 1, to |-> level + 1,
                                        title |-> CleanTitle(h.title)])
                           ELSE st.warnings]

RECURSIVE TocLoop(_, _, _, _, _, _)
TocLoop(st, headings, start, ordered, plain, as_html) ==
    IF Len(headings) = 0 THEN st
    ELSE TocLoop(TocEntry(st, headings[1], start, ordered, plain, as_html),
                 Tail(headings), start, ordered, plain, as_html)

\* Lines 192-195: for x in range(x, prev_level), the closing lines.
RECURSIVE FinalClose(_, _, _, _)
FinalClose(ls, x, prev_level, ordered) ==
    IF x >= prev_level THEN ls
    ELSE FinalClose(Append(ls, Tabs(x - 1) \o <<TAB, TAB, "</li>", NL>> \o Tabs(x - 1)
                                   \o <<TAB, TagEnd(ordered), NL>>),
                    x + 1, prev_level, ordered)

RECURSIVE JoinClasses(_, _)
JoinClasses(classes, sep) ==
    IF Len(classes) = 0 THEN <<>>
    ELSE IF Len(classes) = 1 THEN classes[1]
    ELSE classes[1] \o sep \o JoinClasses(Tail(classes), sep)

TocNothing == [toc |-> <<>>, error |-> FALSE, entries |-> <<>>, warnings |-> <<>>]

\* Lines 197-205: the list of entries in its wrapper.
TocWrap(body, indent, ordered, plain, as_html, cls) ==
    IF as_html
    THEN (IF plain THEN <<TagStart(ordered)>>
          ELSE <<IF ordered THEN "<ol class=\"" ELSE "<ul class=\"">>
               \o JoinClasses(cls, <<" ">>) \o <<"\">">>)
         \o <<NL, TAB, "<li>">> \o body \o indent \o <<"</li>", NL, TagEnd(ordered)>>
    ELSE IF ~plain
    THEN <<"{.">> \o JoinClasses(cls, <<" ", ".">>) \o <<"}", NL>> \o body
    ELSE body

\* Line 203 reads indent: unbound when no heading was listed.
TocResult(st, ls, indent, ordered, plain, as_html, cls) ==
    IF as_html /\ indent = Absent
    THEN [toc |-> <<>>, error |-> TRUE, entries |-> st.entries,
          warnings |-> st.warnings]
    ELSE [toc |-> TocWrap(Join(ls, <<NL>>), indent, ordered, plain, as_html, cls),
          error |-> FALSE, entries |-> st.entries, warnings |-> st.warnings]

\* Lines 192-195: the lists still open are closed in the html output.
TocClosed(st, ordered, plain, as_html, cls) ==
    IF as_html /\ st.prev_level > 0
    THEN TocResult(st, FinalClose(st.toc_lines, 0, st.prev_level, ordered),
                   Tabs(st.prev_level - 2), ordered, plain, as_html, cls)
    ELSE TocResult(st, st.toc_lines, st.indent, ordered, plain, as_html, cls)

\* Lines 95-96, 107-190: nothing without headings, else the loop over them.
TocOf(headings, start, ordered, plain, as_html, cls) ==
    IF Len(headings) = 0 THEN TocNothing
    ELSE TocClosed(TocLoop(TocInit, headings, start, ordered, plain, as_html),
                   ordered, plain, as_html, cls)

\* Line 93: the quantifier {start,depth} is no regular expression when
\* start > depth, and re.findall raises.
generate_toc(markdown_text, start, depth, ordered, plain, output, classes) ==
    IF start > depth THEN [TocNothing EXCEPT !.error = TRUE]
    ELSE TocOf(FindHeadings(markdown_text, 1, start, depth), start, ordered, plain,
               LowerText(output) # <<"markdown">>, Append(classes, <<"toc">>))

(***************************************************************************)
(* process_toc / toc_replace (lines 211-247).                              *)
(* A directive is "{toc", at the start of a line and in any case, then "}" *)
(* at once, or blanks, one or more tokens that are no "}" (the options,    *)
(* group 1), and the first "}" that follows.                               *)
(***************************************************************************)
Quotes == {"'", "\""}
Keywords == {"all", "ALL", "unordered", "plain", "html", "markdown", "toc", "c"}
StartsWord(t) == t \in WordToks \cup Keywords \cup {"depth=", "start=", "output="}
EndsWord(t) == t \in WordToks \cup Keywords

\* The closing brace of the directive that starts at p, 0 when none does.
DirectiveClose(text, p) ==
    LET C == {c \in (p + 1)..Len(text) : text[c] = "}"}
    IN  IF /\ p <= Len(text) /\ LineStart(text, p) /\ Lower(text[p]) = "{toc"
           /\ C # {}
           /\ (Min(C) = p + 1 \/ (text[p + 1] \in Whitespace /\ Min(C) >= p + 3))
        THEN Min(C) ELSE 0

\* group(1), without the blanks around it (no group: the empty text).
DirectiveOptions(text, p) == Strip(SubSeq(text, p + 1, DirectiveClose(text, p) - 1))

RECURSIVE DigitsValue(_, _)
DigitsValue(t, acc) ==
    IF Len(t) > 0 /\ t[1] \in Digits
    THEN DigitsValue(Tail(t), acc * 10 + DigitVal(t[1])) ELSE acc

\* key=['"]?(\d+)['"]? : the number of the leftmost match, -1 without one.
OptionNumber(opts, key) ==
    LET at(n) == IF n + 1 <= Len(opts) /\ opts[n + 1] \in Quotes THEN n + 2 ELSE n + 1
        S == {n \in 1..Len(opts) :
                 /\ Lower(opts[n]) = key
                 /\ at(n) <= Len(opts) /\ opts[at(n)] \in Digits}
    IN  IF S = {} THEN -1
        ELSE DigitsValue(SubSeq(opts, at(Min(S)), Len(opts)), 0)

\* \b(?<!\.)word\b
HasKeyword(opts, word) ==
    \E n \in 1..Len(opts) :
        /\ Lower(opts[n]) = word
        /\ (n = 1 \/ (~EndsWord(opts[n - 1]) /\ opts[n - 1] # "."))
        /\ (n = Len(opts) \/ ~StartsWord(opts[n + 1]))

\* re.finditer(r"\.(\S+)", ...)
RECURSIVE FindClasses(_, _)
FindClasses(opts, p) ==
    IF p > Len(opts) THEN <<>>
    ELSE IF opts[p] = "." /\ p + 1 <= Len(opts) /\ opts[p + 1] \notin Whitespace
         THEN LET e == RunEnd(opts, p + 1, {opts[n] : n \in 1..Len(opts)} \ Whitespace)
              IN  <<SubSeq(opts, p + 1, e)>> \o FindClasses(opts, e + 1)
         ELSE FindClasses(opts, p + 1)

\* output=['"]?(\S+)['"]? : the value of the leftmost match, Absent without one.
OptionOutput(opts) ==
    LET at(n) == IF /\ n + 2 <= Len(opts) /\ opts[n + 1] \in Quotes
                    /\ opts[n + 2] \notin Whitespace
                 THEN n + 2 ELSE n + 1
        S == {n \in 1..Len(opts) :
                 /\ Lower(opts[n]) = "output="
                 /\ at(n) <= Len(opts) /\ opts[at(n)] \notin Whitespace}
    IN  IF S = {} THEN Absent
        ELSE SubSeq(opts, at(Min(S)),
                    RunEnd(opts, at(Min(S)), {opts[n] : n \in 1..Len(opts)} \ Whitespace))

\* Arguments under which "all" would scan from the directive on, as any other
\* directive does.
TocArgsFromDirective(text, p) ==
    LET opts == DirectiveOptions(text, p)
        d == OptionNumber(opts, "depth=")
        st == OptionNumber(opts, "start=")
    IN  [start_pos |-> DirectiveClose(text, p),
         depth |-> IF d >= 0 THEN d ELSE 3,
         start |-> IF st >= 0 THEN (IF st > 1 THEN st ELSE 1) ELSE 1,
         classes |-> FindClasses(opts, 1),
         ordered |-> ~HasKeyword(opts, "unordered"),
         plain |-> HasKeyword(opts, "plain"),
         output |-> IF OptionOutput(opts) = Absent THEN <<"markdown">>
                    ELSE OptionOutput(opts)]

\* The arguments toc_replace hands to generate_toc for the directive at p.
TocArgs(text, p) ==
    LET opts == DirectiveOptions(text, p)
        d == OptionNumber(opts, "depth=")
        st == OptionNumber(opts, "start=")
    IN  [start_pos |-> IF HasKeyword(opts, "all") THEN 0 ELSE DirectiveClose(text, p),
         depth |-> IF d >= 0 THEN d ELSE 3,
         start |-> IF st >= 0 THEN (IF st > 1 THEN st ELSE 1) ELSE 1,
         classes |-> FindClasses(opts, 1),
         ordered |-> ~HasKeyword(opts, "unordered"),
         plain |-> HasKeyword(opts, "plain"),
         output |-> IF OptionOutput(opts) = Absent THEN <<"markdown">>
                    ELSE OptionOutput(opts)]

\* the_match.string is the text re.sub was called on: the span scanned is
\* taken from that text, whatever has been replaced so far.
TocCall(text, a) ==
    generate_toc(SubSeq(text, a.start_pos + 1, Len(text)), a.start, a.depth,
                 a.ordered, a.plain, a.output, a.classes)

toc_replace(text, p) == TocCall(text, TocArgs(text, p))

\* The leftmost directive at or after p (0: none).
NextDirective(text, p) ==
    LET S == {n \in p..Len(text) : DirectiveClose(text, n) > 0}
    IN  IF S = {} THEN 0 ELSE Min(S)

\* re.sub from position p on: the text that replaces text[p..].
RECURSIVE SubToc(_, _)
SubToc(text, p) ==
    LET n == NextDirective(text, p)
    IN  IF n = 0 THEN SubSeq(text, p, Len(text))
        ELSE SubSeq(text, p, n - 1) \o toc_replace(text, n).toc
             \o SubToc(text, DirectiveClose(text, n) + 1)

Directives(text) == {n \in 1..Len(text) : DirectiveClose(text, n) > 0}

\* Directives re.sub does visit: one inside an earlier match is not a match.
RECURSIVE VisitedDirectives(_, _)
VisitedDirectives(text, p) ==
    LET n == NextDirective(text, p)
    IN  IF n = 0 THEN <<>>
        ELSE <<n>> \o VisitedDirectives(text, DirectiveClose(text, n) + 1)

TocRaises(text) ==
    \E k \in 1..Len(VisitedDirectives(text, 1)) :
        toc_replace(text, VisitedDirectives(text, 1)[k]).error

process_toc(text) == SubToc(text, 1)

(***************************************************************************)
(* re.sub(search, replace, text) of the transformation loop (line 658):    *)
(* the matches are found left to right in the text given, never in what    *)
(* has been put in; an empty pattern matches before every token and at the *)
(* end.                                                                    *)
(***************************************************************************)
MatchesAt(patt, txt, p) ==
    /\ p + Len(RegexBody(patt)) - 1 <= Len(txt)
    /\ IF RegexIgnoreCase(patt)
       THEN LowerText(SubSeq(txt, p, p + Len(RegexBody(patt)) - 1))
                = LowerText(RegexBody(patt))
       ELSE SubSeq(txt, p, p + Len(RegexBody(patt)) - 1) = RegexBody(patt)

RECURSIVE SubFrom(_, _, _, _)
SubFrom(patt, repl, txt, p) ==
    IF p > Len(txt) THEN (IF Len(RegexBody(patt)) = 0 THEN repl ELSE <<>>)
    ELSE IF Len(RegexBody(patt)) = 0
         THEN repl \o <<txt[p]>> \o SubFrom(patt, repl, txt, p + 1)
    ELSE IF MatchesAt(patt, txt, p)
         THEN repl \o SubFrom(patt, repl, txt, p + Len(RegexBody(patt)))
    ELSE <<txt[p]>> \o SubFrom(patt, repl, txt, p + 1)

re_sub(patt, repl, txt) == SubFrom(patt, repl, txt, 1)

\* Lines 631-640: a row of the transformations file.
TransformationOf(line) ==
    LET c == Components(line)
    IN  [comment |-> IF c[1] # <<>> THEN c[1] ELSE Absent,
         search |-> c[2],
         replace |-> IF Len(c) > 2 THEN c[3] ELSE <<>>]

RECURSIVE ReadTransformations(_)
ReadTransformations(rows) ==
    IF Len(rows) = 0 THEN <<>>
    ELSE (IF Len(Components(rows[1])) > 1 THEN <<TransformationOf(rows[1])>> ELSE <<>>)
         \o ReadTransformations(Tail(rows))

(***************************************************************************)
(* A candidate file (lines 507-512): its full path and its contents; the   *)
(* filename and the containing directory are cut from the path.            *)
(***************************************************************************)
LastSlash(file) == Max({n \in 1..Len(file) : file[n] = "/"} \cup {0})

basename(file) == SubSeq(file, LastSlash(file) + 1, Len(file))

dirname(file) ==
    IF LastSlash(file) = 0 THEN <<>>
    ELSE IF LastSlash(file) = 1 THEN <<"/">>
    ELSE SubSeq(file, 1, LastSlash(file) - 1)

\* tk_pattern (?i)\b(TK)+\b (line 23): a run of "tk" between word boundaries.
IsTkRun(t) ==
    /\ Len(t) > 0 /\ Len(t) % 2 = 0
    /\ \A n \in 1..Len(t) : Lower(t[n]) = (IF n % 2 = 1 THEN "t" ELSE "k")

TkMatches(txt) ==
    {n \in 1..Len(txt) :
        /\ (n = 1 \/ txt[n - 1] \notin WordToks)
        /\ \E e \in n..Len(txt) :
              /\ IsTkRun(SubSeq(txt, n, e))
              /\ (e = Len(txt) \/ txt[e + 1] \notin WordToks)}

TkCount(txt) == Cardinality(TkMatches(txt))

\* Lines 526-537: the text a rule's search runs on.
TargetScope(excl, f) ==
    CASE excl.scope = scope_filepath -> dirname(f.path)
      [] excl.scope = scope_fullpath -> f.path
      [] excl.scope = scope_contents -> f.contents
      [] OTHER -> basename(f.path)

IsNegated(excl, key) == \E n \in 1..Len(excl.negated) : excl.negated[n] = key

\* A path filter that would be tested on the whole path, filename included.
PathGateOnFullPath(excl, f) ==
    IF excl.path = path_any THEN TRUE
    ELSE (re_search(excl.path, f.path) = "match") # IsNegated(excl, path_key)

\* Lines 517-524: TRUE when the rule gets past its path filter.
PathGate(excl, f) ==
    IF excl.path = path_any THEN TRUE
    ELSE (re_search(excl.path, dirname(f.path)) = "match") # IsNegated(excl, path_key)

PathRaises(excl, f) ==
    excl.path # path_any /\ re_search(excl.path, dirname(f.path)) = "error"

\* Lines 539-542: found_match.
FoundMatch(excl, f) ==
    (re_search(excl.search, TargetScope(excl, f)) = "match") # IsNegated(excl, search_key)

SearchRaises(excl, f) == re_search(excl.search, TargetScope(excl, f)) = "error"

\* A decision that would look at the match alone, whatever the mode.
DecisiveOnMatch(excl, f) == FoundMatch(excl, f)

\* Line 544.
Decisive(excl, f) ==
    \/ (FoundMatch(excl, f) /\ excl.mode = mode_exclude)
    \/ (~FoundMatch(excl, f) /\ excl.mode = mode_include)

(***************************************************************************)
(* The exclusion-rule loader (lines 403-503).                              *)
(***************************************************************************)
loadVars == << exclusions_map, exclusion, ki, this_value, valid_rule,
               rule_rewritten, li >>
selVars == << fi, ri, excluded, evaluated, verdicts, master_documents,
              included_file_paths, files_with_tks, num_exclusions >>
tailVars == << master_contents, ti, original, toc_pos, toc_out, toc_calls,
               text_history, stages, exit_code >>
inputVars == << lines, json_contents, files, check_tks, stop_on_tks,
                transformations >>

\* Line 406: a rule for each --exclude argument.
ArgumentRule(excl) ==
    [mode |-> mode_exclude, scope |-> scope_filename, path |-> path_any,
     search |-> excl, comment |-> Absent, negated |-> <<>>]

\* Lines 417-424: a row of fewer than four fields, or of an unknown mode or
\* scope, is passed over.
SkipRow ==
    /\ pc = "load" /\ li <= Len(lines)
    /\ ~RowAccepted(lines[li])
    /\ li' = li + 1
    /\ UNCHANGED << pc, exclusions_map, exclusion, ki, this_value, valid_rule,
                    rule_rewritten >>
    /\ UNCHANGED << selVars, tailVars, inputVars >>

\* Lines 421-444.
ReadRow ==
    /\ pc = "load" /\ li <= Len(lines)
    /\ RowAccepted(lines[li])
    /\ exclusion' = NormalisedExclusion(lines[li])
    /\ valid_rule' = TRUE
    /\ rule_rewritten' = FALSE
    /\ ki' = 1
    /\ this_value' = <<>>
    /\ pc' = "field"
    /\ UNCHANGED << li, exclusions_map >>
    /\ UNCHANGED << selVars, tailVars, inputVars >>

\* Lines 445-462: the head of the loop over [search, path, comment].
ConsiderField ==
    /\ pc = "field"
    /\ LET key == RewriteKeys[ki]
           value == Field(exclusion, key)
           forced == key = comment_key /\ rule_rewritten /\ value # Absent
           flagged == /\ ~forced /\ value # Absent /\ value # <<>>
                      /\ pattern_has_flag(value, pattern_metadata_flag) > 0
           v == IF flagged THEN pattern_strip_flag(value, pattern_metadata_flag)
                ELSE value
       IN  /\ rule_rewritten' = (rule_rewritten \/ flagged)
           /\ IF (forced \/ flagged) /\ v # <<>>
              THEN /\ this_value' = v
                   /\ pc' = "token"
                   /\ ki' = ki
              ELSE /\ this_value' = <<>>
                   /\ pc' = IF ki = Len(RewriteKeys) THEN "negation" ELSE "field"
                   /\ ki' = IF ki = Len(RewriteKeys) THEN ki ELSE ki + 1
    /\ UNCHANGED << li, exclusions_map, exclusion, valid_rule >>
    /\ UNCHANGED << selVars, tailVars, inputVars >>

\* Lines 465-469, 474: one turn of the while loop, the key is in the record.
SubstituteToken ==
    /\ pc = "token"
    /\ HasToken(this_value)
    /\ TokenKey(this_value) \in DOMAIN json_contents
    /\ this_value' = SubSeq(this_value, 1, TokenStart(this_value) - 1)
                         \o json_contents[TokenKey(this_value)]
                         \o SubSeq(this_value, TokenEnd(this_value) + 1, Len(this_value))
    /\ UNCHANGED << pc, li, exclusions_map, exclusion, ki, valid_rule, rule_rewritten >>
    /\ UNCHANGED << selVars, tailVars, inputVars >>

\* Lines 470-473, 478-480: the key is missing; the rule is given up.
MissingKey ==
    /\ pc = "token"
    /\ HasToken(this_value)
    /\ TokenKey(this_value) \notin DOMAIN json_contents
    /\ valid_rule' = FALSE
    /\ pc' = "negation"
    /\ UNCHANGED << li, exclusions_map, exclusion, ki, this_value, rule_rewritten >>
    /\ UNCHANGED << selVars, tailVars, inputVars >>

\* Lines 475-477: no token is left; the field takes the rewritten text.
FieldRewritten ==
    /\ pc = "token"
    /\ ~HasToken(this_value)
    /\ exclusion' = SetField(exclusion, RewriteKeys[ki], this_value)
    /\ pc' = IF ki = Len(RewriteKeys) THEN "negation" ELSE "field"
    /\ ki' = IF ki = Len(RewriteKeys) THEN ki ELSE ki + 1
    /\ UNCHANGED << li, exclusions_map, this_value, valid_rule, rule_rewritten >>
    /\ UNCHANGED << selVars, tailVars, inputVars >>

\* Lines 485-499: the negation flags, then the rule joins the active set.
FinishRule ==
    /\ pc = "negation"
    /\ exclusion' = ConsiderNegation(exclusion)
    /\ exclusions_map' = IF valid_rule THEN Append(exclusions_map, exclusion')
                         ELSE exclusions_map
    /\ li' = li + 1
    /\ pc' = "load"
    /\ UNCHANGED << ki, this_value, valid_rule, rule_rewritten >>
    /\ UNCHANGED << selVars, tailVars, inputVars >>

\* Line 501: the file is read through.
RowsDone ==
    /\ pc = "load" /\ li > Len(lines)
    /\ pc' = "files"
    /\ UNCHANGED << loadVars, selVars, tailVars, inputVars >>

(***************************************************************************)
(* The selection loop (lines 505-574).                                     *)
(***************************************************************************)
\* Lines 506-513: the next file is read.
OpenFile ==
    /\ pc = "files" /\ fi <= Len(files)
    /\ excluded' = FALSE
    /\ ri' = 1
    /\ evaluated' = <<>>
    /\ pc' = "rules"
    /\ UNCHANGED << fi, verdicts, master_documents, included_file_paths,
                    files_with_tks, num_exclusions >>
    /\ UNCHANGED << loadVars, tailVars, inputVars >>

\* Lines 507-509, 572-574: the file cannot be read.
OpenFileFails ==
    /\ pc = "files" /\ fi <= Len(files)
    /\ pc' = "exit"
    /\ exit_code' = 1
    /\ UNCHANGED << master_contents, ti, original, toc_pos, toc_out, toc_calls,
                    text_history, stages >>
    /\ UNCHANGED << loadVars, selVars, inputVars >>

\* Lines 517-524: the path filter does not let the rule apply.
RuleSkip ==
    /\ pc = "rules" /\ ri <= Len(exclusions_map)
    /\ ~PathRaises(exclusions_map[ri], files[fi])
    /\ ~PathGate(exclusions_map[ri], files[fi])
    /\ ri' = ri + 1
    /\ evaluated' = Append(evaluated, ri)
    /\ UNCHANGED << pc, fi, excluded, verdicts, master_documents,
                    included_file_paths, files_with_tks, num_exclusions >>
    /\ UNCHANGED << loadVars, tailVars, inputVars >>

\* Lines 518, 539: re.search raises on the rule's pattern; nothing catches it.
RuleRaises ==
    /\ pc = "rules" /\ ri <= Len(exclusions_map)
    /\ \/ PathRaises(exclusions_map[ri], files[fi])
       \/ (PathGate(exclusions_map[ri], files[fi])
              /\ SearchRaises(exclusions_map[ri], files[fi]))
    /\ pc' = "crash"
    /\ exit_code' = 1
    /\ evaluated' = Append(evaluated, ri)
    /\ UNCHANGED << fi, ri, excluded, verdicts, master_documents,
                    included_file_paths, files_with_tks, num_exclusions >>
    /\ UNCHANGED << master_contents, ti, original, toc_pos, toc_out, toc_calls,
                    text_history, stages >>
    /\ UNCHANGED << loadVars, inputVars >>

\* A loop that would go on to the next rule after one has dropped the file.
RuleDropContinues ==
    /\ pc = "rules" /\ ri <= Len(exclusions_map)
    /\ ~PathRaises(exclusions_map[ri], files[fi])
    /\ PathGate(exclusions_map[ri], files[fi])
    /\ ~SearchRaises(exclusions_map[ri], files[fi])
    /\ Decisive(exclusions_map[ri], files[fi])
    /\ excluded' = TRUE
    /\ num_exclusions' = num_exclusions + 1
    /\ evaluated' = Append(evaluated, ri)
    /\ ri' = ri + 1
    /\ UNCHANGED << pc, fi, verdicts, master_documents, included_file_paths,
                    files_with_tks >>
    /\ UNCHANGED << loadVars, tailVars, inputVars >>

\* Lines 544-559: the rule drops the file; the loop over the rules ends.
RuleDrop ==
    /\ pc = "rules" /\ ri <= Len(exclusions_map)
    /\ ~PathRaises(exclusions_map[ri], files[fi])
    /\ PathGate(exclusions_map[ri], files[fi])
    /\ ~SearchRaises(exclusions_map[ri], files[fi])
    /\ Decisive(exclusions_map[ri], files[fi])
    /\ excluded' = TRUE
    /\ num_exclusions' = num_exclusions + 1
    /\ evaluated' = Append(evaluated, ri)
    /\ pc' = "verdict"
    /\ UNCHANGED << fi, ri, verdicts, master_documents, included_file_paths,
                    files_with_tks >>
    /\ UNCHANGED << loadVars, tailVars, inputVars >>

\* Line 544 is false: on to the next rule.
RulePass ==
    /\ pc = "rules" /\ ri <= Len(exclusions_map)
    /\ ~PathRaises(exclusions_map[ri], files[fi])
    /\ PathGate(exclusions_map[ri], files[fi])
    /\ ~SearchRaises(exclusions_map[ri], files[fi])
    /\ ~Decisive(exclusions_map[ri], files[fi])
    /\ ri' = ri + 1
    /\ evaluated' = Append(evaluated, ri)
    /\ UNCHANGED << pc, fi, excluded, verdicts, master_documents,
                    included_file_paths, files_with_tks, num_exclusions >>
    /\ UNCHANGED << loadVars, tailVars, inputVars >>

\* Line 515: the rules are used up.
RulesDone ==
    /\ pc = "rules" /\ ri > Len(exclusions_map)
    /\ pc' = "verdict"
    /\ UNCHANGED << fi, ri, excluded, evaluated, verdicts, master_documents,
                    included_file_paths, files_with_tks, num_exclusions >>
    /\ UNCHANGED << loadVars, tailVars, inputVars >>

\* Lines 561-570, and line 558's message: which rule dropped the file, and
\* whether its search matched.
FileVerdict ==
    /\ pc = "verdict"
    /\ LET f == files[fi]
           tks == TkCount(f.contents)
       IN  /\ master_documents' = IF excluded THEN master_documents
                                  ELSE Append(master_documents, f.contents)
           /\ included_file_paths' = IF excluded THEN included_file_paths
                                     ELSE Append(included_file_paths, f.path)
           /\ files_with_tks' = IF ~excluded /\ check_tks /\ tks > 0
                                THEN Append(files_with_tks,
                                            [filename |-> basename(f.path), tks |-> tks])
                                ELSE files_with_tks
           /\ verdicts' = Append(verdicts,
                                 [file |-> fi, excluded |-> excluded,
                                  by |-> IF excluded THEN ri ELSE 0,
                                  matched |-> excluded
                                              /\ FoundMatch(exclusions_map[ri], f),
                                  evaluated |-> evaluated])
    /\ fi' = fi + 1
    /\ pc' = "files"
    /\ UNCHANGED << ri, excluded, evaluated, num_exclusions >>
    /\ UNCHANGED << loadVars, tailVars, inputVars >>

\* Line 506: every file has been considered.
FilesDone ==
    /\ pc = "files" /\ fi > Len(files)
    /\ pc' = "selected"
    /\ UNCHANGED << loadVars, selVars, tailVars, inputVars >>

(***************************************************************************)
(* After the selection (lines 581-807).                                    *)
(***************************************************************************)
\* A run that would go on to collate nothing.
NothingSelectedProceeds ==
    /\ pc = "selected"
    /\ Len(master_documents) = 0
    /\ pc' = "concatenate"
    /\ UNCHANGED << master_contents, ti, original, toc_pos, toc_out, toc_calls,
                    text_history, stages, exit_code >>
    /\ UNCHANGED << loadVars, selVars, inputVars >>

\* Lines 581-583.
NothingSelected ==
    /\ pc = "selected"
    /\ Len(master_documents) = 0
    /\ pc' = "exit"
    /\ exit_code' = 1
    /\ UNCHANGED << master_contents, ti, original, toc_pos, toc_out, toc_calls,
                    text_history, stages >>
    /\ UNCHANGED << loadVars, selVars, inputVars >>

\* Lines 588-599.
CheckTks ==
    /\ pc = "selected"
    /\ Len(master_documents) # 0
    /\ IF check_tks /\ Len(files_with_tks) > 0 /\ stop_on_tks
       THEN pc' = "exit" /\ exit_code' = 1
       ELSE pc' = "concatenate" /\ exit_code' = exit_code
    /\ UNCHANGED << master_contents, ti, original, toc_pos, toc_out, toc_calls,
                    text_history, stages >>
    /\ UNCHANGED << loadVars, selVars, inputVars >>

\* Line 602.
Concatenate ==
    /\ pc = "concatenate"
    /\ master_contents' = Join(master_documents, <<NL>>)
    /\ stages' = Append(stages, "concatenate")
    /\ pc' = "toc"
    /\ UNCHANGED << ti, original, toc_pos, toc_out, toc_calls, text_history,
                    exit_code >>
    /\ UNCHANGED << loadVars, selVars, inputVars >>

\* Lines 613-614: the directives of the collated text are expanded.
ProcessToc ==
    /\ pc = "toc"
    /\ stages' = Append(stages, "toc")
    /\ IF TocRaises(master_contents)
       THEN /\ pc' = "crash" /\ exit_code' = 1
            /\ master_contents' = master_contents
       ELSE /\ pc' = "transform" /\ exit_code' = exit_code
            /\ master_contents' = process_toc(master_contents)
    /\ UNCHANGED << ti, original, toc_pos, toc_out, toc_calls, text_history >>
    /\ UNCHANGED << loadVars, selVars, inputVars >>

\* Lines 651-658: every transformation in turn, each on the text the one
\* before it left.
RECURSIVE ApplyAll(_, _)
ApplyAll(ts, text) ==
    IF Len(ts) = 0 THEN text
    ELSE ApplyAll(Tail(ts), re_sub(ts[1].search, ts[1].replace, text))

RunTransformations ==
    /\ pc = "transform"
    /\ stages' = Append(stages, "transform")
    /\ IF \E n \in 1..Len(transformations) : ~RegexValid(transformations[n].search)
       THEN /\ pc' = "crash" /\ exit_code' = 1
            /\ master_contents' = master_contents
       ELSE /\ pc' = "basename" /\ exit_code' = exit_code
            /\ master_contents' = ApplyAll(transformations, master_contents)
    /\ UNCHANGED << ti, original, toc_pos, toc_out, toc_calls, text_history >>
    /\ UNCHANGED << loadVars, selVars, inputVars >>

(***************************************************************************)
(* process_toc and the transformation loop, a step at a time.              *)
(***************************************************************************)
\* A call that would leave the classes to generate_toc's default list, the one
\* list every such call appends "toc" to.
ExpandedOnSharedClasses(n, r) ==
    /\ ~r.error
    /\ toc_out' = toc_out \o SubSeq(original, toc_pos, n - 1)
                      \o TocCall(original,
                                 [TocArgs(original, n) EXCEPT
                                     !.classes = [k \in 1..Len(toc_calls) |-> <<"toc">>]]).toc
    /\ toc_pos' = DirectiveClose(original, n) + 1
    /\ toc_calls' = Append(toc_calls,
                           [at |-> n, close |-> DirectiveClose(original, n),
                            args |-> TocArgs(original, n),
                            put_at |-> Len(toc_out) + (n - toc_pos) + 1,
                            toc |-> TocCall(original,
                                            [TocArgs(original, n) EXCEPT
                                                !.classes = [k \in 1..Len(toc_calls) |-> <<"toc">>]]).toc,
                            entries |-> r.entries,
                            warnings |-> r.warnings])

\* Lines 214, 217-247: re.sub finds the next directive and calls toc_replace.
Expanded(n, r) ==
    /\ ~r.error
    /\ toc_out' = toc_out \o SubSeq(original, toc_pos, n - 1) \o r.toc
    /\ toc_pos' = DirectiveClose(original, n) + 1
    /\ toc_calls' = Append(toc_calls,
                           [at |-> n, close |-> DirectiveClose(original, n),
                            args |-> TocArgs(original, n),
                            put_at |-> Len(toc_out) + (n - toc_pos) + 1,
                            toc |-> r.toc, entries |-> r.entries,
                            warnings |-> r.warnings])

ExpandAt(n) == n # 0 /\ Expanded(n, toc_replace(original, n))

ExpandDirective ==
    /\ pc = "sub"
    /\ ExpandAt(NextDirective(original, toc_pos))
    /\ UNCHANGED << pc, master_contents, ti, original, text_history, stages,
                    exit_code >>
    /\ UNCHANGED << loadVars, selVars, inputVars >>

\* Lines 93, 201-203: generate_toc raises; nothing catches it.
DirectiveRaises ==
    /\ pc = "sub"
    /\ NextDirective(original, toc_pos) # 0
    /\ toc_replace(original, NextDirective(original, toc_pos)).error
    /\ pc' = "crash"
    /\ exit_code' = 1
    /\ UNCHANGED << master_contents, ti, original, toc_pos, toc_out, toc_calls,
                    text_history, stages >>
    /\ UNCHANGED << loadVars, selVars, inputVars >>

\* Line 214: no directive is left; re.sub returns.
TocDone ==
    /\ pc = "sub"
    /\ NextDirective(original, toc_pos) = 0
    /\ master_contents' = toc_out \o SubSeq(original, toc_pos, Len(original))
    /\ pc' = "expanded"
    /\ UNCHANGED << ti, original, toc_pos, toc_out, toc_calls, text_history,
                    stages, exit_code >>
    /\ UNCHANGED << loadVars, selVars, inputVars >>

\* A loop that would hand every transformation the text as it was collated.
TransformOriginal ==
    /\ pc = "transformations" /\ ti <= Len(transformations)
    /\ RegexValid(transformations[ti].search)
    /\ master_contents' = re_sub(transformations[ti].search,
                                 transformations[ti].replace, original)
    /\ text_history' = Append(text_history, master_contents)
    /\ ti' = ti + 1
    /\ UNCHANGED << pc, original, toc_pos, toc_out, toc_calls, stages, exit_code >>
    /\ UNCHANGED << loadVars, selVars, inputVars >>

\* Lines 651-658: one transformation.
Transform ==
    /\ pc = "transformations" /\ ti <= Len(transformations)
    /\ RegexValid(transformations[ti].search)
    /\ master_contents' = re_sub(transformations[ti].search,
                                 transformations[ti].replace, master_contents)
    /\ text_history' = Append(text_history, master_contents)
    /\ ti' = ti + 1
    /\ UNCHANGED << pc, original, toc_pos, toc_out, toc_calls, stages, exit_code >>
    /\ UNCHANGED << loadVars, selVars, inputVars >>

\* Line 658: re.sub raises on the pattern; nothing catches it.
TransformRaises ==
    /\ pc = "transformations" /\ ti <= Len(transformations)
    /\ ~RegexValid(transformations[ti].search)
    /\ pc' = "crash"
    /\ exit_code' = 1
    /\ UNCHANGED << master_contents, ti, original, toc_pos, toc_out, toc_calls,
                    text_history, stages >>
    /\ UNCHANGED << loadVars, selVars, inputVars >>

\* Line 651: the transformations are used up.
TransformsDone ==
    /\ pc = "transformations" /\ ti > Len(transformations)
    /\ pc' = "transformed"
    /\ UNCHANGED << master_contents, ti, original, toc_pos, toc_out, toc_calls,
                    text_history, stages, exit_code >>
    /\ UNCHANGED << loadVars, selVars, inputVars >>

\* Lines 716-734: a basename from the metadata, or the run ends.
HasBasename(json) ==
    \/ (<<"basename">> \in DOMAIN json /\ json[<<"basename">>] # <<>>)
    \/ (<<"title">> \in DOMAIN json /\ json[<<"title">>] # <<>>)

ResolveBasename ==
    /\ pc = "basename"
    /\ IF HasBasename(json_contents)
       THEN pc' = "typeset" /\ exit_code' = exit_code
       ELSE pc' = "exit" /\ exit_code' = 1
    /\ UNCHANGED << master_contents, ti, original, toc_pos, toc_out, toc_calls,
                    text_history, stages >>
    /\ UNCHANGED << loadVars, selVars, inputVars >>

\* Lines 766-803: pandoc is run for the formats asked for.
InvokePandoc ==
    /\ pc = "typeset"
    /\ stages' = Append(stages, "typeset")
    /\ pc' = "done"
    /\ exit_code' = 0
    /\ UNCHANGED << master_contents, ti, original, toc_pos, toc_out, toc_calls,
                    text_history >>
    /\ UNCHANGED << loadVars, selVars, inputVars >>

(***************************************************************************)
(* The inputs of a run.                                                    *)
(***************************************************************************)
MaxRows == 3        \* rows in the exclusions file
MaxFiles == 2       \* Markdown files in the input folder
MaxTocLines == 4    \* lines of a text handed to process_toc
MaxTextLen == 3     \* tokens of a text handed to the transformations
MaxTransforms == 2  \* rows in the transformations file

SeqsUpTo(S, n) == UNION {[1..k -> S] : k \in 0..n}

\* The Markdown files there are, in the order of sorted_alphanumeric
\* (line 387): /a/d.md, /d/a.md, /d/b.md.
AllFiles ==
    << [path |-> <<"/", "a", "/", "d", ".md">>,
        contents |-> <<"{toc", "}", NL, "#", " ", "b">>],
       [path |-> <<"/", "d", "/", "a", ".md">>, contents |-> <<"T", "K">>],
       [path |-> <<"/", "d", "/", "b", ".md">>, contents |-> <<"a">>] >>

IsSubList(ix) == \A n \in 1..(Len(ix) - 1) : ix[n] < ix[n + 1]

FileLists ==
    {[n \in 1..Len(ix) |-> AllFiles[ix[n]]] :
        ix \in {jx \in SeqsUpTo(1..Len(AllFiles), MaxFiles) : IsSubList(jx)}}

\* The metadata file, with the two keys lines 356-357 always add.
Dated(json) ==
    [k \in DOMAIN json \cup {<<"date">>, <<"date-year">>} |->
        IF k = <<"date">> THEN <<"2", "0", "2", "6">>
        ELSE IF k = <<"date-year">> THEN <<"2", "0", "2", "6">>
        ELSE json[k]]

WithTitle == Dated([k \in {<<"title">>} |-> <<"a">>])
NoTitle == Dated([k \in {} |-> <<>>])

\* A metadata file whose values are tokens themselves, each naming the other.
Cyclic ==
    Dated([k \in {<<"title">>, <<"zz">>} |->
              IF k = <<"title">> THEN <<"%", "zz", "%">> ELSE <<"%", "title", "%">>])

Row(m, sc, pa, se) == m \o <<TAB>> \o sc \o <<TAB>> \o pa \o <<TAB>> \o se \o <<NL>>

Flagged(letters, body) == <<"(", "?">> \o letters \o <<")">> \o body

\* Rules on the name and on the contents, of both modes.
NameRows ==
    {Row(m, sc, path_any, <<"a">>) :
        m \in {mode_exclude, mode_include}, sc \in {scope_filename, scope_contents}}

\* Rules on the folder and on the whole path, of both modes.
FolderRows ==
    {Row(m, sc, path_any, <<"a">>) :
        m \in {mode_exclude, mode_include}, sc \in {scope_filepath, scope_fullpath}}

\* Rules behind a path filter.
FilteredRows ==
    {Row(mode_exclude, scope_filename, <<"a">>, <<"d">>),
     Row(mode_exclude, scope_filename, <<"d">>, <<"a">>),
     Row(mode_include, scope_fullpath, <<"a">>, <<"b">>),
     Row(mode_include, scope_contents, <<"d">>, <<"a">>),
     Row(mode_exclude, scope_fullpath, path_any, <<"b">>)}

\* Rules with the negate flag on the search or on the path, alone in its
\* group or beside a flag of the regular-expression engine, and the rules
\* they negate.
NegatedRows ==
    {Row(mode_e, scope_f, path_any, Flagged(<<"i", "N">>, <<"A">>)),
     Row(mode_i, scope_f, path_any, Flagged(<<"i", "N">>, <<"A">>)),
     Row(mode_e, scope_f, path_any, Flagged(<<"i">>, <<"A">>)),
     Row(mode_e, scope_f, Flagged(<<"i", "N">>, <<"A">>), <<"d">>),
     Row(mode_e, scope_f, Flagged(<<"i">>, <<"A">>), <<"d">>),
     Row(mode_e, scope_f, path_any, Flagged(<<"N">>, <<"a">>))}

\* Rules with the metadata flag, and the literal rule they should equal.
MetadataRows ==
    {Row(mode_e, scope_f, path_any, Flagged(<<"i", "M">>, <<"%", "title", "%">>)),
     Row(mode_e, scope_f, path_any, Flagged(<<"i">>, <<"a">>)),
     Row(mode_e, scope_f, path_any, Flagged(<<"M">>, <<"%", "title", "%">>)),
     Row(mode_e, scope_c, path_any, Flagged(<<"i", "M">>, <<"%", "zz", "%">>)),
     Row(mode_i, scope_u, Flagged(<<"i", "M">>, <<"%", "title", "%">>), <<"b">>),
     Row(mode_e, scope_f, path_any, Flagged(<<"i", "M">>, <<"%", "title", "%">>))
         \o <<TAB, "%", "zz", "%", NL>>}

\* Rows the loader passes over, among rows it takes.
MixedRows ==
    {Row(<<"x">>, scope_f, path_any, <<"a">>),
     Row(mode_e, <<"x">>, path_any, <<"a">>),
     mode_e \o <<TAB>> \o scope_f \o <<TAB>> \o path_any \o <<NL>>,
     <<NL>>,
     Row(mode_e, scope_f, path_any, <<"a">>),
     mode_i \o <<TAB, TAB>> \o scope_p \o <<TAB>> \o <<"d">> \o <<TAB, TAB, TAB>>
         \o <<"d">> \o <<TAB, "b", TAB, "b", " ", NL>>}

RowUniverses == {NameRows, FolderRows, FilteredRows, NegatedRows, MetadataRows, MixedRows}

XRow(c, se, re) == c \o <<TAB>> \o se \o <<TAB>> \o re \o <<NL>>

TransformationRows ==
    {XRow(<<>>, <<"a">>, <<"b">>),
     XRow(<<"c">>, <<"b">>, <<"a">>),
     <<TAB, "b", NL>>,
     XRow(<<>>, <<"a">>, <<"a", "b">>),
     XRow(<<>>, Flagged(<<"i">>, <<"A">>), <<"b">>),
     XRow(<<>>, Flagged(<<>>, <<"a">>), <<"b">>),
     <<"c", NL>>}

TocLines ==
    {<<"#", " ", "a">>,
     <<"#", "#", " ", "b">>,
     <<"#", "#", "#", " ", "d">>,
     <<"#", " ", "a", "{.notoc}">>,
     <<"{toc", "}">>,
     <<"{toc", " ", "all", "}">>,
     <<"{toc", "}", "{toc", "}">>,
     <<"{toc", " ", "output=", "html", "}">>,
     <<"{toc", " ", "start=", "4", "}">>}

TocTexts == {Join(ls, <<NL>>) : ls \in SeqsUpTo(TocLines, MaxTocLines)}

Idle ==
    /\ exclusion = NoExclusion /\ ki = 1 /\ this_value = <<>>
    /\ valid_rule = TRUE /\ rule_rewritten = FALSE
    /\ li = 1 /\ fi = 1 /\ ri = 1 /\ excluded = FALSE /\ evaluated = <<>>
    /\ verdicts = <<>> /\ master_documents = <<>> /\ included_file_paths = <<>>
    /\ files_with_tks = <<>> /\ num_exclusions = 0
    /\ ti = 1 /\ toc_pos = 1 /\ toc_out = <<>> /\ toc_calls = <<>>
    /\ text_history = <<>> /\ stages = <<>> /\ exit_code = -1

\* The selection under rows of every kind, one file in the folder.
InitRows ==
    /\ \E U \in RowUniverses : lines \in SeqsUpTo(U, MaxRows)
    /\ json_contents \in {WithTitle, NoTitle}
    /\ (json_contents = NoTitle =>
           \E n \in 1..Len(lines) : lines[n] \in MetadataRows)
    /\ exclusions_map = <<>>
    /\ files \in {<<AllFiles[n]>> : n \in 1..Len(AllFiles)}
    /\ check_tks = TRUE
    /\ stop_on_tks = FALSE
    /\ transformations = <<>>

\* The whole run under every option, a row or none in the exclusions file.
InitOptions ==
    /\ lines \in SeqsUpTo({Row(mode_e, scope_f, path_any, <<"a">>),
                           Row(mode_i, scope_c, path_any, <<"a">>)}, 1)
    /\ json_contents \in {WithTitle, NoTitle}
    /\ exclusions_map \in {<<>>, <<ArgumentRule(<<"b">>)>>}
    /\ files \in FileLists
    /\ check_tks \in BOOLEAN
    /\ stop_on_tks \in BOOLEAN
    /\ transformations \in {ReadTransformations(rows) :
                               rows \in SeqsUpTo(TransformationRows, 1)}

\* The state at line 417: the arguments are parsed, the metadata is read, the
\* files are listed, the exclusions file is open.
Init ==
    /\ pc = "load"
    /\ (InitRows \/ InitOptions)
    /\ master_contents = <<>> /\ original = <<>>
    /\ Idle

Next ==
    \/ SkipRow \/ ReadRow \/ ConsiderField \/ SubstituteToken \/ MissingKey
    \/ FieldRewritten \/ FinishRule \/ RowsDone
    \/ OpenFile \/ OpenFileFails \/ RuleSkip \/ RuleRaises \/ RuleDrop \/ RulePass
    \/ RulesDone \/ FileVerdict \/ FilesDone
    \/ NothingSelected \/ CheckTks \/ Concatenate \/ ProcessToc
    \/ RunTransformations \/ ResolveBasename \/ InvokePandoc

Spec == Init /\ [][Next]_vars

\* The loader on its own, under every metadata file.  The interpreter runs
\* the next statement whenever there is one: the while loop over the tokens
\* (lines 465-474) takes its next turn or leaves, which is weak fairness of
\* the steps of that loop.
InitLoader ==
    /\ pc = "load"
    /\ lines \in SeqsUpTo(MetadataRows \cup {<<NL>>}, MaxRows)
    /\ json_contents \in {WithTitle, NoTitle, Cyclic}
    /\ exclusions_map = <<>>
    /\ files = <<>> /\ check_tks = TRUE /\ stop_on_tks = FALSE
    /\ transformations = <<>>
    /\ master_contents = <<>> /\ original = <<>>
    /\ Idle

NextLoader ==
    \/ SkipRow \/ ReadRow \/ ConsiderField \/ SubstituteToken \/ MissingKey
    \/ FieldRewritten \/ FinishRule \/ RowsDone

SpecLoader ==
    /\ InitLoader /\ [][NextLoader]_vars
    /\ WF_vars(SubstituteToken \/ MissingKey \/ FieldRewritten)

\* process_toc on its own: any text may be the collated master.
InitToc ==
    /\ pc = "sub"
    /\ master_contents \in TocTexts
    /\ original = master_contents
    /\ lines = <<>> /\ json_contents = WithTitle /\ exclusions_map = <<>>
    /\ files = <<>> /\ check_tks = TRUE /\ stop_on_tks = FALSE
    /\ transformations = <<>>
    /\ Idle

NextToc == ExpandDirective \/ DirectiveRaises \/ TocDone

SpecToc == InitToc /\ [][NextToc]_vars

\* The transformation loop on its own.
TransformTexts == SeqsUpTo({"a", "b"}, MaxTextLen)

InitTransform ==
    /\ pc = "transformations"
    /\ master_contents \in TransformTexts
    /\ original = master_contents
    /\ transformations \in {ReadTransformations(rows) :
                               rows \in SeqsUpTo(TransformationRows, MaxTransforms)}
    /\ lines = <<>> /\ json_contents = WithTitle /\ exclusions_map = <<>>
    /\ files = <<>> /\ check_tks = TRUE /\ stop_on_tks = FALSE
    /\ Idle

NextTransform == Transform \/ TransformRaises \/ TransformsDone

SpecTransform == InitTransform /\ [][NextTransform]_vars

(***************************************************************************)
(* The properties of the selection.                                        *)
(***************************************************************************)
Seq1To(n) == [k \in 1..n |-> k]

\* Rule k was reached while the file of verdict r was considered.
Evaluated(r, k) == \E n \in 1..Len(r.evaluated) : r.evaluated[n] = k

\* Rule k is the rule that dropped the file of verdict r.
DroppedBy(r, k) == r.excluded /\ r.by = k

\* The first rule of the list whose path gate passes for f and that is
\* decisive for it (0: there is none).
FirstDecisive(f) ==
    LET D == {k \in 1..Len(exclusions_map) :
                 /\ PathGate(exclusions_map[k], f)
                 /\ Decisive(exclusions_map[k], f)}
    IN  IF D = {} THEN 0 ELSE Min(D)

KeptPaths ==
    LET Kept(r) == ~r.excluded
        kept == SelectSeq(verdicts, Kept)
    IN  [n \in 1..Len(kept) |-> files[kept[n].file].path]

\* C1: the verdict on every file is that of the first rule, in the order of
\* the list, whose path gate passes and that is decisive for the file; the
\* rules are evaluated up to that rule and no further, so that no rule after
\* it bears on the verdict; a file is kept exactly when no rule of the list
\* is decisive for it.
C1_FirstDecisiveRuleDecides ==
    /\ \A v \in 1..Len(verdicts) :
          LET r == verdicts[v]
              first == FirstDecisive(files[r.file])
          IN  /\ r.excluded = (first # 0)
              /\ r.by = first
              /\ r.evaluated =
                     Seq1To(IF first = 0 THEN Len(exclusions_map) ELSE first)
    /\ pc = "rules" => ~excluded
    /\ included_file_paths = KeptPaths
    /\ Len(master_documents) = Len(included_file_paths)

\* A file dropped by the first of several rules, one of the later rules
\* being a rule that applies to the file and would let it through.
C1_DroppedDespiteLaterRule ==
    \E v \in 1..Len(verdicts) :
        /\ verdicts[v].excluded /\ verdicts[v].by = 1
        /\ \E k \in 2..Len(exclusions_map) :
              /\ PathGate(exclusions_map[k], files[verdicts[v].file])
              /\ ~SearchRaises(exclusions_map[k], files[verdicts[v].file])
              /\ ~Decisive(exclusions_map[k], files[verdicts[v].file])

\* The text a scope stands for.
ScopeText(scope, f) ==
    IF scope = scope_filename THEN basename(f.path)
    ELSE IF scope = scope_filepath THEN dirname(f.path)
    ELSE IF scope = scope_fullpath THEN f.path
    ELSE f.contents

\* The search of the rule on the text of its scope, after the negation of the
\* search field.
Matched(excl, f) ==
    (re_search(excl.search, ScopeText(excl.scope, f)) = "match")
        # IsNegated(excl, search_key)

\* C2: a rule that applies to a file drops it if and only if the search
\* matched and the mode is exclude, or the search did not match and the mode
\* is include, the search being tested on the text the rule's scope selects
\* and negated when the search field is; otherwise the file goes to the next
\* rule.
C2_DropIffMatchedExcludeOrUnmatchedInclude ==
    \A v \in 1..Len(verdicts) : \A k \in 1..Len(exclusions_map) :
        LET r == verdicts[v]
            f == files[r.file]
            e == exclusions_map[k]
        IN  (Evaluated(r, k) /\ PathGate(e, f)) =>
                /\ DroppedBy(r, k) <=>
                       \/ (Matched(e, f) /\ e.mode = mode_exclude)
                       \/ (~Matched(e, f) /\ e.mode = mode_include)
                /\ DroppedBy(r, k) => (r.matched = Matched(e, f))
                /\ (~DroppedBy(r, k) /\ k < Len(exclusions_map)) => Evaluated(r, k + 1)

\* A file dropped by an include rule on the contents that found no match.
C2_DroppedByUnmatchedInclude ==
    \E v \in 1..Len(verdicts) :
        /\ verdicts[v].excluded /\ ~verdicts[v].matched
        /\ exclusions_map[verdicts[v].by].mode = mode_include
        /\ exclusions_map[verdicts[v].by].scope = scope_contents

\* The pattern of a field whose negate flag stood alone in its group: what is
\* left of the group is "(?)".
Bare(patt) ==
    IF Len(patt) >= 3 /\ patt[1] = "(" /\ patt[2] = "?" /\ patt[3] = ")"
    THEN SubSeq(patt, 4, Len(patt)) ELSE patt

WouldMatch(patt, txt) == re_search(Bare(patt), txt) = "match"

\* C3: a rule whose search field carries the negate flag decides on the
\* inverted result: a file the pattern would match without the flag is not
\* dropped by the rule under exclude and is dropped by it under include; the
\* path gate of a rule whose path field carries the flag is inverted the same
\* way; such a rule always comes to a result.
C3_NegateFlagInvertsTheResult ==
    /\ \A v \in 1..Len(verdicts) : \A k \in 1..Len(exclusions_map) :
          LET r == verdicts[v]
              f == files[r.file]
              e == exclusions_map[k]
              would == WouldMatch(e.search, ScopeText(e.scope, f))
          IN  Evaluated(r, k) =>
                  /\ (IsNegated(e, search_key) /\ PathGate(e, f)) =>
                         (DroppedBy(r, k) <=>
                              \/ (~would /\ e.mode = mode_exclude)
                              \/ (would /\ e.mode = mode_include))
                  /\ IsNegated(e, path_key) =>
                         (PathGate(e, f) <=> ~WouldMatch(e.path, dirname(f.path)))
    /\ (pc = "crash" /\ stages = <<>> /\ ri <= Len(exclusions_map)) =>
           ~(/\ IsNegated(exclusions_map[ri], search_key)
                    \/ IsNegated(exclusions_map[ri], path_key)
             /\ RegexValid(Bare(exclusions_map[ri].search))
             /\ RegexValid(Bare(exclusions_map[ri].path)))

\* C4: a rule whose path filter is "*" applies to every file; the path
\* filter of any other rule is tested on the folder of the file, never on
\* its name, and negated when the path field is; when that test fails the
\* rule does not drop the file and the file goes to the rules after it.
C4_PathFilterGatesOnTheFolder ==
    \A v \in 1..Len(verdicts) : \A k \in 1..Len(exclusions_map) :
        LET r == verdicts[v]
            f == files[r.file]
            e == exclusions_map[k]
            gate == (re_search(e.path, dirname(f.path)) = "match")
                        # IsNegated(e, path_key)
        IN  Evaluated(r, k) =>
                /\ (e.path = path_any \/ gate) => (DroppedBy(r, k) <=> Decisive(e, f))
                /\ (e.path # path_any /\ ~gate) =>
                       /\ ~DroppedBy(r, k)
                       /\ k < Len(exclusions_map) => Evaluated(r, k + 1)
                       /\ k = Len(exclusions_map) => ~r.excluded

\* A file whose name, but not whose folder, matches the path filter of the
\* first rule, and which the second rule drops.
C4_GatedRuleLeavesFileToNextRule ==
    \E v \in 1..Len(verdicts) :
        /\ Len(exclusions_map) >= 2
        /\ exclusions_map[1].path # path_any
        /\ re_search(exclusions_map[1].path, basename(files[verdicts[v].file].path))
               = "match"
        /\ re_search(exclusions_map[1].path, dirname(files[verdicts[v].file].path))
               = "nomatch"
        /\ DroppedBy(verdicts[v], 2)

HasFlag(patt, flag) == pattern_has_flag(patt, flag) > 0

\* The pattern without the flag: the letter goes, and the group with it when
\* no letter is left.
WithoutFlag(patt, flag) == Bare(pattern_strip_flag(patt, flag))

\* The text with every token whose key the record has replaced by its value.
RECURSIVE Substituted(_, _)
Substituted(v, json) ==
    IF HasToken(v) /\ TokenKey(v) \in DOMAIN json
    THEN Substituted(SubSeq(v, 1, TokenStart(v) - 1) \o json[TokenKey(v)]
                         \o SubSeq(v, TokenEnd(v) + 1, Len(v)), json)
    ELSE v

Resolves(v, json) == ~HasToken(Substituted(v, json))

WellFormed(line) ==
    /\ Len(Components(line)) >= 4
    /\ NormaliseMode(Components(line)[1]) \in {mode_exclude, mode_include}
    /\ NormaliseScope(Components(line)[2])
           \in {scope_filename, scope_filepath, scope_fullpath, scope_contents}

CarriesMetadataFlag(line) ==
    \/ HasFlag(Components(line)[3], pattern_metadata_flag)
    \/ HasFlag(Components(line)[4], pattern_metadata_flag)

\* The tokens of every field that is rewritten have their keys in the record.
KeysResolve(line, json) ==
    LET e == RowExclusion(Components(line))
    IN  /\ HasFlag(e.search, pattern_metadata_flag) => Resolves(e.search, json)
        /\ HasFlag(e.path, pattern_metadata_flag) => Resolves(e.path, json)
        /\ (/\ e.comment # Absent
            /\ \/ CarriesMetadataFlag(line)
               \/ HasFlag(e.comment, pattern_metadata_flag))
               => Resolves(e.comment, json)

LiteralField(patt, json) ==
    IF HasFlag(patt, pattern_metadata_flag)
    THEN Substituted(WithoutFlag(patt, pattern_metadata_flag), json)
    ELSE patt

\* The rule loaded from the row whose flagged fields are written out.
LiteralRule(line, json) ==
    ConsiderNegation([NormalisedExclusion(line) EXCEPT
                          !.search = LiteralField(@, json),
                          !.path = LiteralField(@, json)])

SameRule(a, b) ==
    /\ a.mode = b.mode /\ a.scope = b.scope /\ a.path = b.path
    /\ a.search = b.search /\ a.negated = b.negated

\* The step that ends the reading of a row with the metadata flag.
LoadsLiteralRule ==
    (pc = "negation" /\ CarriesMetadataFlag(lines[li])) =>
    IF KeysResolve(lines[li], json_contents)
    THEN /\ Len(exclusions_map') = Len(exclusions_map) + 1
         /\ SameRule(exclusions_map'[Len(exclusions_map')],
                     LiteralRule(lines[li], json_contents))
         /\ ~HasToken(exclusions_map'[Len(exclusions_map')].search)
    ELSE exclusions_map' = exclusions_map

\* C5: when a row with the metadata flag is loaded and the keys of all its
\* tokens are in the record, the rule that joins the active set is the rule
\* the row with the values written out would give; when a key is missing the
\* row adds no rule; no active rule keeps a token in a flagged field.
C5_MetadataRuleIsTheLiteralRule == [][LoadsLiteralRule]_vars

\* A step of the loader.
LoaderStep ==
    pc \in {"load", "field", "token", "negation"} =>
    /\ pc' \in {"load", "field", "token", "negation", "files"}
    /\ exit_code' = -1
    /\ li' \in {li, li + 1}
    /\ li' = li =>
           (exclusions_map' = exclusions_map /\ (pc = "load" => pc' # "load"))
    /\ li' = li + 1 =>
           IF WellFormed(lines[li]) /\ KeysResolve(lines[li], json_contents)
           THEN /\ Len(exclusions_map') = Len(exclusions_map) + 1
                /\ SubSeq(exclusions_map', 1, Len(exclusions_map)) = exclusions_map
                /\ exclusions_map'[Len(exclusions_map')].mode
                       = NormaliseMode(Components(lines[li])[1])
                /\ exclusions_map'[Len(exclusions_map')].scope
                       = NormaliseScope(Components(lines[li])[2])
           ELSE exclusions_map' = exclusions_map

\* C6: a row of fewer than four fields, or of an unknown mode or scope, adds
\* no rule and does not end the run; the rows are read one after the other
\* and every well-formed row adds its rule at the end of the active set, so
\* that the rules stand in the order of the file.
C6_MalformedRowsArePassedOver == [][LoaderStep]_vars

\* Three rows, the second of an unknown mode or scope or too short; the run
\* has gone on with the rules of the first and the third.
C6_RowsAroundMalformedRowLoaded ==
    /\ pc = "done"
    /\ Len(lines) = 3
    /\ WellFormed(lines[1]) /\ ~WellFormed(lines[2]) /\ WellFormed(lines[3])
    /\ Len(exclusions_map) = 2
    /\ exclusions_map[1].search = Components(lines[1])[4]
    /\ exclusions_map[2].search = Components(lines[3])[4]

(***************************************************************************)
(* The properties of the run after the selection.                          *)
(***************************************************************************)
AllStages == <<"concatenate", "toc", "transform", "typeset">>

IsPrefix(a, b) == Len(a) <= Len(b) /\ a = SubSeq(b, 1, Len(a))

\* Every file has been considered.
SelectionOver ==
    /\ fi > Len(files)
    /\ pc \notin {"load", "field", "token", "negation", "files", "rules", "verdict"}

StoppedOnTks == check_tks /\ stop_on_tks /\ Len(files_with_tks) > 0

TextBefore(k) == text_history[k]
TextAfter(k) == IF k = Len(text_history) THEN master_contents ELSE text_history[k + 1]

\* C8: the transformations are applied in the order of the list, each to
\* the whole text the one before it gave back, and each once: a rule fires on
\* text that an earlier rule put in, and no rule sees the text a later rule
\* puts in.
C8_TransformationsFeedEachOther ==
    pc \in {"transformations", "transformed"} =>
        /\ Len(text_history) = ti - 1
        /\ ti <= Len(transformations) + 1
        /\ pc = "transformed" => ti = Len(transformations) + 1
        /\ IF ti = 1 THEN master_contents = original ELSE TextBefore(1) = original
        /\ \A k \in 1..(ti - 1) :
              TextAfter(k) = re_sub(transformations[k].search,
                                    transformations[k].replace, TextBefore(k))

\* Two rules: the second finds nothing in the collated text and fires on what
\* the first put in, and the text it puts in, which the first would match,
\* stays.
C8_SecondRuleFiresOnFirstRulesText ==
    /\ pc = "transformed"
    /\ Len(transformations) = 2
    /\ re_search(transformations[2].search, original) = "nomatch"
    /\ TextAfter(2) # TextBefore(2)
    /\ re_search(transformations[1].search, TextBefore(2)) = "nomatch"
    /\ re_search(transformations[1].search, master_contents) = "match"

(***************************************************************************)
(* The properties of the directives.                                       *)
(***************************************************************************)
HasAll(c) == HasKeyword(DirectiveOptions(original, c.at), "all")

\* The outline of the span of directive call c: the text after the directive,
\* or the whole text under "all"; the text is the one process_toc was given.
OutlineOfSpan(c) ==
    generate_toc(SubSeq(original, IF HasAll(c) THEN 1 ELSE c.close + 1, Len(original)),
                 c.args.start, c.args.depth, c.args.ordered, c.args.plain,
                 c.args.output, c.args.classes)

\* C9: every directive is replaced by the outline of its own span: the text
\* that follows it, or the whole text from its start under "all"; the span
\* is taken from the text as it was given, whatever other directives it has
\* and whatever they were replaced by.
C9_EachDirectiveScansItsOwnSpan ==
    /\ \A n \in 1..Len(toc_calls) :
          /\ toc_calls[n].toc = OutlineOfSpan(toc_calls[n]).toc
          /\ toc_calls[n].entries = OutlineOfSpan(toc_calls[n]).entries
          /\ SubSeq(toc_out, toc_calls[n].put_at,
                    toc_calls[n].put_at + Len(toc_calls[n].toc) - 1) = toc_calls[n].toc
    /\ pc = "expanded" =>
           master_contents = toc_out \o SubSeq(original, toc_pos, Len(original))

\* Two directives, the second with "all": the first has listed the headings
\* after it, the second has listed a heading that stands before it.
C9_SecondDirectiveScansWholeText ==
    /\ pc = "expanded"
    /\ Len(toc_calls) = 2
    /\ ~HasAll(toc_calls[1]) /\ toc_calls[1].entries # <<>>
    /\ HasAll(toc_calls[2])
    /\ Len(toc_calls[2].entries) > Len(toc_calls[1].entries)
    /\ Len(toc_calls[2].entries) >
           Len(generate_toc(SubSeq(original, toc_calls[2].close + 1, Len(original)),
                            1, 3, TRUE, FALSE, <<"markdown">>, <<>>).entries)

\* C10: the directives are expanded in one pass: every directive of the text
\* given is replaced once, and when the pass is over no directive is left in
\* the text, so that a second pass gives the same text.
C10_OnePassLeavesNoDirective ==
    pc = "expanded" =>
        /\ Len(toc_calls) = Cardinality(Directives(original))
        /\ Directives(master_contents) = {}
        /\ ~TocRaises(master_contents)
        /\ process_toc(master_contents) = master_contents

(***************************************************************************)
(* The properties of the outline.                                          *)
(***************************************************************************)
IsMarkdown(c) == LowerText(c.args.output) = <<"markdown">>

\* The place of entry k among its siblings: the entries before it at its
\* level with nothing shallower in between, and itself.
SiblingNumber(entries, k) ==
    1 + Cardinality({j \in 1..(k - 1) :
                        /\ entries[j].level = entries[k].level
                        /\ \A m \in j..k : entries[m].level >= entries[k].level})

\* C11: in an ordered outline the number rendered for an entry counts its
\* place among its siblings (the last component of its hierarchical number),
\* so that an entry reached on the way back from a deeper level takes the
\* number after that of its previous sibling: depths 1, 2, 1 give 1., 1., 2.
\* The outlines looked at are those without a level jump.
C11_NumbersFollowTheHierarchy ==
    \A n \in 1..Len(toc_calls) :
        (/\ toc_calls[n].args.ordered /\ IsMarkdown(toc_calls[n])
         /\ toc_calls[n].warnings = <<>>) =>
            \A k \in 1..Len(toc_calls[n].entries) :
                toc_calls[n].entries[k].marker =
                    NumText(SiblingNumber(toc_calls[n].entries, k)) \o <<".">>

\* The level before entry k, and whether entry k is a level jump (line 136).
LevelBefore(entries, k) == IF k = 1 THEN 0 ELSE entries[k - 1].level

IsJump(entries, k) ==
    /\ entries[k].level > LevelBefore(entries, k)
    /\ (entries[k].level - LevelBefore(entries, k) > 1 \/ k = 1)

\* The levels a jump to entry k passes over: those below the first entry, or
\* those strictly between the previous entry's level and the entry's.
SkippedLevels(entries, k) ==
    IF ~IsJump(entries, k) THEN {}
    ELSE IF k = 1 THEN 0..(entries[k].level - 1)
    ELSE (LevelBefore(entries, k) + 1)..(entries[k].level - 1)

\* One warning for every jump, in the order of the entries.
RECURSIVE JumpWarnings(_, _)
JumpWarnings(entries, k) ==
    IF k > Len(entries) THEN <<>>
    ELSE (IF IsJump(entries, k)
          THEN <<[from |-> LevelBefore(entries, k) + 1, to |-> entries[k].level + 1,
                  title |-> entries[k].title]>>
          ELSE <<>>) \o JumpWarnings(entries, k + 1)

\* The list items of a Markdown outline as rendered: the lines of the text
\* returned, without the line of the classes; of each, the tabs it starts
\* with and whether it is a filler.
ItemLines(c) ==
    LET IsItem(l) == l # <<>>
        ls == Split(c.toc, NL)
    IN  SelectSeq(IF c.args.plain THEN ls ELSE Tail(ls), IsItem)

LeadingTabs(line) == RunEnd(line, 1, {TAB})

IsFiller(line) ==
    LeadingTabs(line) < Len(line) /\ line[LeadingTabs(line) + 1] = "- &nbsp;"

Layout(c) ==
    [k \in 1..Len(ItemLines(c)) |->
        [filler |-> IsFiller(ItemLines(c)[k]), tabs |-> LeadingTabs(ItemLines(c)[k])]]

FillerItems(c) == LET F(i) == i.filler IN SelectSeq(Layout(c), F)
EntryItems(c) == LET E(i) == ~i.filler IN SelectSeq(Layout(c), E)

RECURSIVE SkippedCount(_, _)
SkippedCount(entries, k) ==
    IF k > Len(entries) THEN 0
    ELSE Cardinality(SkippedLevels(entries, k)) + SkippedCount(entries, k + 1)

\* C12: a level jump is not fatal: the outline is returned, with one warning
\* for every jumping entry and no other, naming the levels of the jump and
\* the title; one filler item is put in for every level passed over; and the
\* entry is rendered at its own level (depths 1, 3: levels 0 and 2, one
\* warning from level 1 to level 3).  Indentation is read off the Markdown
\* outlines.
C12_JumpIsWarnedFilledAndKeptAtItsLevel ==
    \A n \in 1..Len(toc_calls) :
        /\ toc_calls[n].warnings = JumpWarnings(toc_calls[n].entries, 1)
        /\ IsMarkdown(toc_calls[n]) =>
              /\ Len(FillerItems(toc_calls[n])) = SkippedCount(toc_calls[n].entries, 1)
              /\ Len(EntryItems(toc_calls[n])) = Len(toc_calls[n].entries)
              /\ \A k \in 1..Len(toc_calls[n].entries) :
                    EntryItems(toc_calls[n])[k].tabs = toc_calls[n].entries[k].level

\* The text without the heading lines that carry a no-outline mark.
IsSkippedHeading(line) == Len(line) > 0 /\ line[1] = "#" /\ HasNoTocMark(line)

WithoutSkipped(text) ==
    LET Kept(l) == ~IsSkippedHeading(l)
    IN  Join(SelectSeq(Split(text, NL), Kept), <<NL>>)

\* The outline of the span the arguments a name, the marked headings removed.
OutlineWithoutSkipped(text, a) ==
    generate_toc(WithoutSkipped(SubSeq(text, a.start_pos + 1, Len(text))),
                 a.start, a.depth, a.ordered, a.plain, a.output, a.classes)

SameOutline(c, o) ==
    ~o.error /\ c.toc = o.toc /\ c.entries = o.entries /\ c.warnings = o.warnings

\* C13: a heading with a no-outline mark is skipped: the outline rendered
\* (text, entries, numbers, warnings) is the outline of the same text with
\* the marked headings taken out, and rendering fails on the one exactly
\* when it fails on the other.
C13_SkippedHeadingIsAsIfRemoved ==
    /\ \A n \in 1..Len(toc_calls) :
          SameOutline(toc_calls[n], OutlineWithoutSkipped(original, toc_calls[n].args))
    /\ (pc = "crash" /\ NextDirective(original, toc_pos) # 0) =>
          OutlineWithoutSkipped(original,
                                TocArgs(original, NextDirective(original, toc_pos))).error

\* The text a call scanned, and the arguments it rendered with.
SpanOf(c) == SubSeq(original, c.args.start_pos + 1, Len(original))
RenderArgs(c) == [c.args EXCEPT !.start_pos = 0]

SameCall(c, d) == SpanOf(c) = SpanOf(d) /\ RenderArgs(c) = RenderArgs(d)

ListOpens == {"<ol>", "<ul>", "<ol class=\"", "<ul class=\""}
ListCloses == {"</ol>", "</ul>"}

\* The tags of an outline, in order.
TagsOf(toks) ==
    LET IsTag(t) == t \in ListOpens \cup ListCloses \cup {"<li>", "</li>"}
    IN  SelectSeq(toks, IsTag)

\* What a tag opens or closes.
TagKind(t) == IF t \in ListOpens \cup ListCloses THEN "list" ELSE "item"
IsOpening(t) == t \in ListOpens \cup {"<li>"}

Innermost(open) == IF open = <<>> THEN "none" ELSE open[Len(open)]

\* A tag in its place: a list opens at the top or inside an item, an item
\* inside a list, and a closing tag closes the innermost open element, which
\* is of its kind.
InPlace(t, open) ==
    IF IsOpening(t)
    THEN Innermost(open) = (IF TagKind(t) = "list" THEN "item" ELSE "list")
         \/ (TagKind(t) = "list" /\ open = <<>>)
    ELSE Innermost(open) = TagKind(t)

\* The tags read from tag k on, open holding the elements open so far
\* (innermost last): the elements left open at the end, <<"bad">> when a tag
\* is out of place.
RECURSIVE Nest(_, _, _)
Nest(tags, k, open) ==
    IF k > Len(tags) THEN open
    ELSE IF ~InPlace(tags[k], open) THEN <<"bad">>
    ELSE Nest(tags, k + 1,
              IF IsOpening(tags[k]) THEN Append(open, TagKind(tags[k]))
              ELSE SubSeq(open, 1, Len(open) - 1))

WellNested(toks) == Nest(TagsOf(toks), 1, <<>>) = <<>>

\* The lists open at token p: those opened and not closed before it.
OpenLists(toks, p) ==
    Cardinality({k \in 1..p : toks[k] \in ListOpens})
        - Cardinality({k \in 1..p : toks[k] \in ListCloses})

\* Where the entries stand in the outline: the links, in order.
EntryPlaces(toks) ==
    LET IsLink(k) == toks[k] = "</a>"
    IN  SelectSeq([k \in 1..Len(toks) |-> k], IsLink)

\* C15: an html outline is well nested, whatever the levels of the headings
\* (a jump at the first entry, a jump later on, a decrease): every list and
\* every item opened is closed once, innermost first; an entry of level l
\* stands in l + 1 open lists, the outer one counted; and the closing lines
\* close what the last entry left open.
C15_HtmlOutlineIsWellNested ==
    \A n \in 1..Len(toc_calls) :
        (~IsMarkdown(toc_calls[n]) /\ toc_calls[n].entries # <<>>) =>
            /\ WellNested(toc_calls[n].toc)
            /\ Len(EntryPlaces(toc_calls[n].toc)) = Len(toc_calls[n].entries)
            /\ \A k \in 1..Len(toc_calls[n].entries) :
                  OpenLists(toc_calls[n].toc, EntryPlaces(toc_calls[n].toc)[k])
                      = toc_calls[n].entries[k].level + 1

\* The items a Markdown outline of these entries is to have: before a
\* jumping entry a filler at every level passed over, shallowest first, and
\* every entry at its own level.
RECURSIVE ItemsByLevel(_, _)
ItemsByLevel(entries, k) ==
    IF k > Len(entries) THEN <<>>
    ELSE LET S == SkippedLevels(entries, k)
             lo == IF k = 1 THEN 0 ELSE LevelBefore(entries, k) + 1
         IN  [i \in 1..Cardinality(S) |-> [filler |-> TRUE, tabs |-> lo + i - 1]]
             \o <<[filler |-> FALSE, tabs |-> entries[k].level]>>
             \o ItemsByLevel(entries, k + 1)

\* C16: in a Markdown outline every entry is indented by its own level,
\* heading depth minus start, whatever came before it (a jump, a decrease),
\* and the fillers of a jump stand at the levels passed over, between the
\* level of the entry before and the level of the entry.
C16_IndentationIsTheLevel ==
    \A n \in 1..Len(toc_calls) :
        IsMarkdown(toc_calls[n]) =>
            Layout(toc_calls[n]) = ItemsByLevel(toc_calls[n].entries, 1)

\* The arguments are a range of heading depths generate_toc can scan.
ValidRange(a) == 1 <= a.start /\ a.start <= a.depth

\* C17: whatever the options of a directive, generate_toc is called with
\* 1 <= start <= depth: the calls that returned were made with such a range,
\* and where the expansion has raised, the directive it raised on had such a
\* range too (no expansion fails over its depth and start options).
C17_DirectiveGivesAValidRange ==
    /\ \A n \in 1..Len(toc_calls) : ValidRange(toc_calls[n].args)
    /\ (pc = "crash" /\ NextDirective(original, toc_pos) # 0) =>
          ValidRange(TocArgs(original, NextDirective(original, toc_pos)))

(***************************************************************************)
(* The termination of the token substitution.                              *)
(***************************************************************************)
\* C18: the substitution of the tokens of a field comes to an end, whatever
\* the field and the metadata record: once the loop over the tokens of a
\* field is entered, it is left, with no token in the field or with the rule
\* given up.
C18_SubstitutionTerminates == (pc = "token") ~> (pc # "token")

====
